---------------------------- MODULE Spec2Model ----------------------------
(***************************************************************************)
(* Traffic Pattern Detective, presentation layer: FileUpload (file         *)
(* validation and selection), App (handleAnalyze, the derived render       *)
(* values) and AnalysisStatus (the phase display), as a state machine.     *)
(*                                                                         *)
(* A React handler's state updates are batched: one action of the model is *)
(* one handler together with the render that commits its updates.  An      *)
(* effect (useEffect) runs after the render that changed its dependency,   *)
(* so it is an action of its own, taken before any further user event.     *)
(* What a render shows is a function of the state it renders, and is       *)
(* written as a definition over the variables (EffectivePhase, ShowResults).*)
(***************************************************************************)
EXTENDS Integers, Sequences, FiniteSets, TLC

VARIABLES
  \* App (useState)
  uploadedFile,      \* NULL or a File
  isAnalyzing,       \* BOOLEAN
  analysisResults,   \* NULL or the body of the /analyze response
  error,             \* string, "" when none
  phase,             \* "uploading" | "analyzing" | "complete"
  \* FileUpload
  localError,        \* string, "" when none
  fuEffectPending,   \* the [uploadedFile] effect is due: the last render changed uploadedFile
  \* AnalysisStatus
  internalPhase,     \* "uploading" | "preprocessing" | "analyzing"
  t1, t2,            \* the two setTimeout timers are pending
  asEffectPending,   \* the [isAnalyzing] effect is due
  \* the axios.post in flight
  request,           \* NULL or [file |-> the file posted]
  \* history
  offered,           \* the file given to the last validateAndSelect; NULL after a browse click
  settled,           \* the response or error that ended the last handleAnalyze; NULL while none
  hadResults,        \* analysisResults was set when handleAnalyze was last invoked
  \* the render pipeline on a response body (chartData, InsightsPanel, recommendations)
  payload,           \* the response body rendered
  view               \* NULL, or what App and InsightsPanel computed from payload

vars == <<uploadedFile, isAnalyzing, analysisResults, error, phase, localError,
          fuEffectPending, internalPhase, t1, t2, asEffectPending, request,
          offered, settled, hadResults, payload, view>>

appVars == <<uploadedFile, isAnalyzing, analysisResults, error, phase>>
statusVars == <<internalPhase, t1, t2, asEffectPending>>
dataVars == <<payload, view>>

NULL == [null |-> TRUE]

-----------------------------------------------------------------------------
(* Strings that the code inspects character by character are sequences of  *)
(* one-character strings.                                                  *)

UpperChars == <<"A","B","C","D","E","F","G","H","I","J","K","L","M",
                "N","O","P","Q","R","S","T","U","V","W","X","Y","Z">>
LowerChars == <<"a","b","c","d","e","f","g","h","i","j","k","l","m",
                "n","o","p","q","r","s","t","u","v","w","x","y","z">>

LowerChar(c) ==
  IF \E i \in 1..Len(UpperChars) : UpperChars[i] = c
  THEN LowerChars[CHOOSE i \in 1..Len(UpperChars) : UpperChars[i] = c]
  ELSE c

\* String.prototype.toLowerCase
ToLowerCase(s) == [i \in 1..Len(s) |-> LowerChar(s[i])]

\* String.prototype.endsWith
EndsWith(s, suffix) ==
  /\ Len(s) >= Len(suffix)
  /\ SubSeq(s, Len(s) - Len(suffix) + 1, Len(s)) = suffix

-----------------------------------------------------------------------------
(* FileUpload                                                              *)

MAX_BYTES == 5 * 1024 * 1024

FileNames == { <<"a",".","c","s","v">>, <<"A",".","C","S","V">>,
               <<"a",".","t","x","t">>, <<"c","s","v">> }
FileTypes == {"text/csv", "text/plain"}
FileSizes == {MAX_BYTES - 1, MAX_BYTES, MAX_BYTES + 1}
Files == [name : FileNames, type : FileTypes, size : FileSizes]

Pad2(n) == IF n < 10 THEN "0" \o ToString(n) ELSE ToString(n)

\* formatBytes: (bytes / 2^20).toFixed(2) + " MB"
formatBytes(bytes) ==
  LET hundredths == (bytes * 100 + 524288) \div 1048576
  IN  ToString(hundredths \div 100) \o "." \o Pad2(hundredths % 100) \o " MB"

isCsvFile(file) ==
  \/ EndsWith(ToLowerCase(file.name), <<".","c","s","v">>)
  \/ file.type = "text/csv"

NotCsvMessage == "Please upload a .csv file."
TooLargeMessage(size) == "File too large (" \o formatBytes(size) \o "). Max is 5 MB."

\* onFileSelected = setUploadedFile, and the render that follows: the
\* [uploadedFile] effect is due when the value differs from the one rendered
\* before (Object.is).  A File taken from an event is a new object each time.
onFileSelected(file) ==
  /\ uploadedFile' = file
  /\ fuEffectPending' = (file # NULL \/ uploadedFile # NULL)

validateAndSelectSkipsSize(file) ==
  /\ offered' = file
  /\ IF file = NULL
     THEN localError' = "" /\ onFileSelected(NULL)
     ELSE IF ~isCsvFile(file)
     THEN localError' = NotCsvMessage /\ onFileSelected(NULL)
     ELSE localError' = "" /\ onFileSelected(file)

validateAndSelect(file) ==
  /\ offered' = file
  /\ IF file = NULL
     THEN localError' = "" /\ onFileSelected(NULL)
     ELSE IF ~isCsvFile(file)
     THEN localError' = NotCsvMessage /\ onFileSelected(NULL)
     ELSE IF file.size > MAX_BYTES
     THEN localError' = TooLargeMessage(file.size) /\ onFileSelected(NULL)
     ELSE localError' = "" /\ onFileSelected(file)

\* No effect is waiting to run: React runs the effects of a render before it
\* handles the next event.
EffectsSettled == ~fuEffectPending /\ ~asEffectPending

\* onDrop of the drop zone, which is not disabled while analyzing.
handleDrop ==
  /\ EffectsSettled
  /\ \E file \in Files \cup {NULL} : validateAndSelect(file)
  /\ UNCHANGED <<isAnalyzing, analysisResults, error, phase, statusVars,
                 request, settled, dataVars, hadResults>>

\* onChange of the file input, which is disabled while analyzing.
handleInputChange ==
  /\ EffectsSettled
  /\ ~isAnalyzing
  /\ \E file \in Files \cup {NULL} : validateAndSelect(file)
  /\ UNCHANGED <<isAnalyzing, analysisResults, error, phase, statusVars,
                 request, settled, dataVars, hadResults>>

handleBrowseClick ==
  /\ EffectsSettled
  /\ localError' = ""
  /\ offered' = NULL
  /\ UNCHANGED <<appVars, fuEffectPending, statusVars, request, settled, dataVars, hadResults>>

\* useEffect(() => setLocalError(''), [uploadedFile])
FileUploadEffect ==
  /\ fuEffectPending
  /\ localError' = ""
  /\ fuEffectPending' = FALSE
  /\ UNCHANGED <<appVars, statusVars, request, offered, settled, dataVars, hadResults>>

\* disabled={isAnalyzing || !uploadedFile || Boolean(localError)}
AnalyzeButtonDisabled == isAnalyzing \/ uploadedFile = NULL \/ localError # ""


-----------------------------------------------------------------------------
(* App.handleAnalyze and the /analyze request                              *)

Absent == "<absent>"                    \* a field the body does not have
Truthy(v) == v # Absent /\ v # ""       \* what `v || ...` tests on a string-or-missing field

ErrorStrings == {Absent, "", "CSV must contain at least 10 records"}
DetailStrings == {Absent, "Invalid file"}

\* A 2xx response: res.data is missing (body = FALSE) or an object.
OkResponses ==
  { r \in [kind : {"2xx"}, body : BOOLEAN, success : {"true", "false", Absent},
           error : ErrorStrings, detail : {Absent}, message : {""}] :
      ~r.body => (r.success = Absent /\ r.error = Absent) }

\* What axios rejects with: an HTTP 4xx/5xx response (e.response.data is the
\* body), a network error or the 120 s timeout (no e.response).
HttpErrors ==
  [kind : {"http"}, body : {TRUE}, success : {"false", Absent}, error : ErrorStrings,
   detail : DetailStrings, message : {"Request failed with status code 500"}]
NetworkErrors ==
  [kind : {"network"}, body : {FALSE}, success : {Absent}, error : {Absent},
   detail : {Absent}, message : {"Network Error"}]
TimeoutErrors ==
  [kind : {"timeout"}, body : {FALSE}, success : {Absent}, error : {Absent},
   detail : {Absent}, message : {"timeout of 120000ms exceeded"}]
Rejections == HttpErrors \cup NetworkErrors \cup TimeoutErrors

AnalysisFailedMessage == "Analysis failed. Please try again."
UnexpectedErrorMessage == "Unexpected error. Please try again."
SelectFileMessage == "Please select a CSV file to analyze."

\* res?.data ?? null
ResponseData(res) == IF res.body THEN [success |-> res.success, error |-> res.error] ELSE NULL

\* e?.response?.data?.error || e?.response?.data?.detail || e?.message || '...'
CatchMessage(e) ==
  IF Truthy(e.error) THEN e.error
  ELSE IF Truthy(e.detail) THEN e.detail
  ELSE IF Truthy(e.message) THEN e.message
  ELSE UnexpectedErrorMessage

\* The click on "Analyze Traffic Data", up to the await of axios.post.
handleAnalyzeKeepsResults ==
  /\ EffectsSettled
  /\ ~AnalyzeButtonDisabled
  /\ UNCHANGED analysisResults
  /\ hadResults' = (analysisResults # NULL)
  /\ settled' = NULL
  /\ IF uploadedFile = NULL
     THEN /\ error' = SelectFileMessage
          /\ UNCHANGED <<isAnalyzing, phase, request, asEffectPending>>
     ELSE /\ error' = ""
          /\ isAnalyzing' = TRUE
          /\ phase' = "uploading"
          /\ request' = [file |-> uploadedFile]
          /\ asEffectPending' = ~isAnalyzing
  /\ UNCHANGED <<uploadedFile, localError, fuEffectPending, internalPhase, t1, t2,
                 offered, dataVars>>

handleAnalyze ==
  /\ EffectsSettled
  /\ ~AnalyzeButtonDisabled
  /\ analysisResults' = NULL
  /\ hadResults' = (analysisResults # NULL)
  /\ settled' = NULL
  /\ IF uploadedFile = NULL
     THEN /\ error' = SelectFileMessage
          /\ UNCHANGED <<isAnalyzing, phase, request, asEffectPending>>
     ELSE /\ error' = ""
          /\ isAnalyzing' = TRUE
          /\ phase' = "uploading"
          /\ request' = [file |-> uploadedFile]
          /\ asEffectPending' = ~isAnalyzing
  /\ UNCHANGED <<uploadedFile, localError, fuEffectPending, internalPhase, t1, t2,
                 offered, dataVars>>

\* The catch block and finally.
handleAnalyzeCatchKeepsAnalyzing(e) ==
  /\ error' = CatchMessage(e)
  /\ UNCHANGED <<isAnalyzing, asEffectPending>>
  /\ UNCHANGED <<analysisResults, phase>>

handleAnalyzeCatch(e) ==
  /\ error' = CatchMessage(e)
  /\ isAnalyzing' = FALSE
  /\ asEffectPending' = isAnalyzing
  /\ UNCHANGED <<analysisResults, phase>>

\* The statements after the await when the promise resolves, and finally.
handleAnalyzeResumeIgnoresSuccessFlag(res) ==
  /\ analysisResults' = ResponseData(res)
  /\ phase' = "complete"
  /\ UNCHANGED error
  /\ isAnalyzing' = FALSE
  /\ asEffectPending' = isAnalyzing

handleAnalyzeResume(res) ==
  /\ IF res.body /\ res.success = "false"
     THEN /\ phase' = "analyzing"
          /\ error' = IF Truthy(res.error) THEN res.error ELSE AnalysisFailedMessage
          /\ UNCHANGED analysisResults
     ELSE /\ analysisResults' = ResponseData(res)
          /\ phase' = "complete"
          /\ UNCHANGED error
  /\ isAnalyzing' = FALSE
  /\ asEffectPending' = isAnalyzing

\* axios.post resolves (a 2xx response).
ResolveAnalyze ==
  /\ request # NULL
  /\ EffectsSettled
  /\ \E res \in OkResponses :
       /\ handleAnalyzeResume(res)
       /\ settled' = res
  /\ request' = NULL
  /\ UNCHANGED <<uploadedFile, localError, fuEffectPending, internalPhase, t1, t2,
                 offered, dataVars, hadResults>>

\* axios.post rejects: HTTP error status, network error, or timeout: 120000.
RejectAnalyze ==
  /\ request # NULL
  /\ EffectsSettled
  /\ \E e \in Rejections :
       /\ handleAnalyzeCatch(e)
       /\ settled' = e
  /\ request' = NULL
  /\ UNCHANGED <<uploadedFile, localError, fuEffectPending, internalPhase, t1, t2,
                 offered, dataVars, hadResults>>

\* const showResults = Boolean(analysisResults && !error)
ShowResults == analysisResults # NULL /\ error = ""

\* {error ? <div className="app__error">{error}</div> : null}
ShowError == error # ""

-----------------------------------------------------------------------------
(* AnalysisStatus                                                          *)

PHASES == <<"uploading", "preprocessing", "analyzing", "complete">>

\* PHASES.indexOf
PhaseIndex(p) == CHOOSE i \in 1..Len(PHASES) : PHASES[i] = p

\* if (!isAnalyzing && phase !== 'complete') return null
StatusVisible == isAnalyzing \/ phase = "complete"

\* The useMemo of effectivePhase; "none" stands for null.
EffectivePhase ==
  IF ~isAnalyzing /\ phase = "complete" THEN "complete"
  ELSE IF isAnalyzing THEN internalPhase
  ELSE "none"

\* const currentIndex = PHASES.indexOf(effectivePhase || 'uploading')
CurrentIndex ==
  PhaseIndex(IF EffectivePhase = "none" THEN "uploading" ELSE EffectivePhase)

\* isDone and isActive of the step at position idx of PHASES (from 1).
IsDoneThroughCurrent(idx) == idx <= CurrentIndex \/ EffectivePhase = "complete"

IsDone(idx) == idx < CurrentIndex \/ EffectivePhase = "complete"

IsActive(idx) == idx = CurrentIndex /\ EffectivePhase # "complete"

\* useEffect(..., [isAnalyzing]): the cleanup of the previous run of the effect
\* (clearTimeout of both timers), then the effect itself.
AnalysisStatusEffect ==
  /\ asEffectPending
  /\ asEffectPending' = FALSE
  /\ IF ~isAnalyzing
     THEN /\ t1' = FALSE /\ t2' = FALSE
          /\ UNCHANGED internalPhase
     ELSE /\ internalPhase' = "uploading"
          /\ t1' = TRUE /\ t2' = TRUE
  /\ UNCHANGED <<appVars, localError, fuEffectPending, request, offered, settled, dataVars, hadResults>>

\* setTimeout(() => setInternalPhase('preprocessing'), 700)
Timer1 ==
  /\ t1
  /\ t1' = FALSE
  /\ internalPhase' = "preprocessing"
  /\ UNCHANGED <<appVars, localError, fuEffectPending, t2, asEffectPending, request,
                 offered, settled, dataVars, hadResults>>

\* setTimeout(() => setInternalPhase('analyzing'), 1700): due after the 700 ms one.
Timer2 ==
  /\ t2 /\ ~t1
  /\ t2' = FALSE
  /\ internalPhase' = "analyzing"
  /\ UNCHANGED <<appVars, localError, fuEffectPending, t1, asEffectPending, request,
                 offered, settled, dataVars, hadResults>>

-----------------------------------------------------------------------------
(* JavaScript values of a response body.  A value is its type and its      *)
(* String() form (a sequence of characters); a missing field is Undefined. *)

Undefined == [t |-> "undefined", s |-> <<"u","n","d","e","f","i","n","e","d">>]
Null == [t |-> "null", s |-> <<"n","u","l","l">>]
Str(chars) == [t |-> "string", s |-> chars]
Num(digits) == [t |-> "number", s |-> digits]
Arr(items) == [t |-> "array", items |-> items]
Obj == [t |-> "object", s |-> <<"[","o","b","j","e","c","t"," ","O","b","j","e","c","t","]">>]

\* String(v)
String(v) == v.s

\* a ?? b
Coalesce(a, b) == IF a.t \in {"undefined", "null"} THEN b ELSE a

\* Boolean(v), !v
Boolean(v) ==
  CASE v.t \in {"undefined", "null"} -> FALSE
    [] v.t = "string" -> v.s # <<>>
    [] v.t = "number" -> v.s # <<"0">>
    [] OTHER -> TRUE

-----------------------------------------------------------------------------
(* InsightsPanel                                                           *)

safeString(v) == IF v.t = "string" THEN v.s ELSE <<>>

normalizeSeverityCaseSensitive(v) ==
  LET s == safeString(v)
  IN  IF s = <<"h","i","g","h">> \/ s = <<"c","r","i","t","i","c","a","l">>
      THEN <<"h","i","g","h">>
      ELSE IF s = <<"m","e","d","i","u","m">> \/ s = <<"m","e","d">>
      THEN <<"m","e","d","i","u","m">>
      ELSE <<"l","o","w">>

normalizeSeverity(v) ==
  LET s == ToLowerCase(safeString(v))
  IN  IF s = <<"h","i","g","h">> \/ s = <<"c","r","i","t","i","c","a","l">>
      THEN <<"h","i","g","h">>
      ELSE IF s = <<"m","e","d","i","u","m">> \/ s = <<"m","e","d">>
      THEN <<"m","e","d","i","u","m">>
      ELSE <<"l","o","w">>

\* The severity badge of each row of the anomalies table: list.map(...).
SeverityBadges(anomalies) ==
  [i \in 1..Len(anomalies) |-> normalizeSeverity(anomalies[i].severity)]

-----------------------------------------------------------------------------
(* App: normalizeRecommendations                                           *)

LF == "\n"
CR == "\r"
BULLET == "U+2022"
\* The three characters of the bullet's UTF-8 bytes read as Windows-1252,
\* which the split pattern also names.
MOJIBAKE == <<"U+00E2", "U+20AC", "U+00A2">>

WhiteSpace == {" ", "\t", LF, CR}

\* The length of the match of /\r?\n|<mojibake>|•/ at the head of s; 0 when none.
SeparatorLength(s) ==
  IF Len(s) >= 2 /\ s[1] = CR /\ s[2] = LF THEN 2
  ELSE IF Len(s) >= 1 /\ s[1] = LF THEN 1
  ELSE IF Len(s) >= 3 /\ SubSeq(s, 1, 3) = MOJIBAKE THEN 3
  ELSE IF Len(s) >= 1 /\ s[1] = BULLET THEN 1
  ELSE 0

\* String.prototype.split on that pattern; cur is the piece being read.
RECURSIVE SplitFrom(_, _)
SplitFrom(s, cur) ==
  IF s = <<>> THEN <<cur>>
  ELSE LET k == SeparatorLength(s)
       IN  IF k > 0
           THEN <<cur>> \o SplitFrom(SubSeq(s, k + 1, Len(s)), <<>>)
           ELSE SplitFrom(Tail(s), Append(cur, Head(s)))

Split(s) == SplitFrom(s, <<>>)

\* String.prototype.trim
RECURSIVE TrimStart(_)
TrimStart(s) ==
  IF s # <<>> /\ Head(s) \in WhiteSpace THEN TrimStart(Tail(s)) ELSE s

RECURSIVE TrimEnd(_)
TrimEnd(s) ==
  IF s # <<>> /\ s[Len(s)] \in WhiteSpace THEN TrimEnd(SubSeq(s, 1, Len(s) - 1)) ELSE s

Trim(s) == TrimEnd(TrimStart(s))

\* Array.prototype.filter(Boolean)
RECURSIVE FilterBoolean(_)
FilterBoolean(items) ==
  IF items = <<>> THEN <<>>
  ELSE IF Boolean(Head(items)) THEN <<Head(items)>> \o FilterBoolean(Tail(items))
  ELSE FilterBoolean(Tail(items))

normalizeRecommendationsNoTrimNoFilter(recommendations) ==
  IF recommendations.t = "array" THEN recommendations.items
  ELSE IF recommendations.t = "string"
  THEN LET pieces == Split(recommendations.s)
       IN  [i \in 1..Len(pieces) |-> Str(pieces[i])]
  ELSE <<>>

normalizeRecommendations(recommendations) ==
  IF recommendations.t = "array" THEN FilterBoolean(recommendations.items)
  ELSE IF recommendations.t = "string"
  THEN LET pieces == Split(recommendations.s)
       IN  FilterBoolean([i \in 1..Len(pieces) |-> Str(Trim(pieces[i]))])
  ELSE <<>>

-----------------------------------------------------------------------------
(* App: chartData                                                          *)

\* a?.timestamp ?? a?.time ?? a?.datetime
AnomalyTimestamp(a) == Coalesce(a.timestamp, Coalesce(a.time, a.datetime))
\* a?.location ?? a?.location_id ?? a?.locationId
AnomalyLocation(a) == Coalesce(a.location, Coalesce(a.location_id, a.locationId))
\* r?.timestamp ?? r?.time ?? r?.datetime
RecordTimestamp(r) == Coalesce(r.timestamp, Coalesce(r.time, r.datetime))
\* r?.location_id ?? r?.location ?? r?.locationId
RecordLocation(r) == Coalesce(r.location_id, Coalesce(r.location, r.locationId))
\* r?.vehicle_count ?? r?.vehicleCount ?? r?.count
RecordVehicleCount(r) == Coalesce(r.vehicle_count, Coalesce(r.vehicleCount, r.count))

\* o?.name: the member of an object, undefined for any other value.
Member(o, name) == IF o.t = "object" /\ name \in DOMAIN o THEN o[name] ELSE Undefined

\* The useMemo of processedRecords, for analysisResults = p.
processedRecords(p) ==
  LET processed == Coalesce(Member(p.processed_data, "raw_data"),
                     Coalesce(Member(p.processed_data, "records"),
                       Coalesce(p.processed_data, Arr(<<>>))))
  IN  IF processed.t = "array" THEN processed.items ELSE <<>>

\* `${String(ts)}__${String(loc)}`
MapKey(ts, loc) == String(ts) \o <<"_", "_">> \o String(loc)

\* String(a?.severity ?? 'medium').toLowerCase()
AnomalySeverity(a) ==
  ToLowerCase(String(Coalesce(a.severity, Str(<<"m","e","d","i","u","m">>))))

EmptyMap == [k \in {} |-> <<>>]
\* Map.prototype.set
MapSet(m, k, v) == [x \in (DOMAIN m) \cup {k} |-> IF x = k THEN v ELSE m[x]]

\* The loop `for (const a of anomalies)` over the first n anomalies.
RECURSIVE AnomalyKey(_, _)
AnomalyKey(anomalies, n) ==
  IF n = 0 THEN EmptyMap
  ELSE LET m == AnomalyKey(anomalies, n - 1)
           a == anomalies[n]
           ts == AnomalyTimestamp(a)
           loc == AnomalyLocation(a)
       IN  IF ~Boolean(ts) \/ ~Boolean(loc) THEN m
           ELSE MapSet(m, MapKey(ts, loc), [severity |-> AnomalySeverity(a)])

\* One entry of processedRecords.map(...): the fields of r (...r), then
\* timestamp, location_id, vehicle_count, is_anomaly and anomaly_severity.
ChartEntryWithoutSpread(r, anomalyKey) ==
  LET ts == RecordTimestamp(r)
      loc == RecordLocation(r)
      key == MapKey(ts, loc)
      found == key \in DOMAIN anomalyKey
  IN  [ timestamp |-> ts, time |-> Undefined, datetime |-> Undefined,
        location_id |-> loc, location |-> Undefined, locationId |-> Undefined,
        vehicle_count |-> RecordVehicleCount(r),
        vehicleCount |-> Undefined, count |-> Undefined,
        is_anomaly |-> found,
        anomaly_severity |-> IF found THEN Str(anomalyKey[key].severity) ELSE Null ]

ChartEntry(r, anomalyKey) ==
  LET ts == RecordTimestamp(r)
      loc == RecordLocation(r)
      key == MapKey(ts, loc)
      found == key \in DOMAIN anomalyKey
  IN  [ timestamp |-> ts, time |-> r.time, datetime |-> r.datetime,
        location_id |-> loc, location |-> r.location, locationId |-> r.locationId,
        vehicle_count |-> RecordVehicleCount(r),
        vehicleCount |-> r.vehicleCount, count |-> r.count,
        is_anomaly |-> found,
        anomaly_severity |-> IF found THEN Str(anomalyKey[key].severity) ELSE Null ]

chartData(records, anomalies) ==
  IF Len(records) = 0 THEN <<>>
  ELSE LET anomalyKey == AnomalyKey(anomalies, Len(anomalies))
       IN  [i \in 1..Len(records) |-> ChartEntry(records[i], anomalyKey)]

-----------------------------------------------------------------------------
(* TrafficChart                                                            *)

Digits == {"0", "1", "2", "3", "4", "5", "6", "7", "8", "9"}
NaN == [t |-> "number", s |-> <<"N","a","N">>]

\* Number(v) for the values a record field holds: null is 0, a string is
\* trimmed and read as a decimal integer ('' is 0), anything else is NaN.
Number(v) ==
  CASE v.t = "number" -> v
    [] v.t = "null" -> Num(<<"0">>)
    [] v.t = "string" ->
         LET s == Trim(v.s)
         IN  IF s = <<>> THEN Num(<<"0">>)
             ELSE IF \A i \in 1..Len(s) : s[i] \in Digits THEN Num(s)
             ELSE NaN
    [] OTHER -> NaN

\* function toNumber(v)
toNumber(v) ==
  IF v.t = "number" THEN v
  ELSE LET n == Number(v) IN IF n # NaN THEN n ELSE Null

\* The characters of the keys, in the order of their UTF-16 code units.
CodeUnitOrder == <<"0", "1", "2", "3", "4", "5", "6", "7", "8", "9", "_", "a", "b", "c">>
CodeUnit(c) == CHOOSE i \in 1..Len(CodeUnitOrder) : CodeUnitOrder[i] = c

\* a comes before b, or is b, in the order Array.prototype.sort() uses.
RECURSIVE SortsBefore(_, _)
SortsBefore(a, b) ==
  IF a = <<>> THEN TRUE
  ELSE IF b = <<>> THEN FALSE
  ELSE IF a[1] # b[1] THEN CodeUnit(a[1]) < CodeUnit(b[1])
  ELSE SortsBefore(Tail(a), Tail(b))

\* Array.from(set).sort()
RECURSIVE SortedArray(_)
SortedArray(set) ==
  IF set = {} THEN <<>>
  ELSE LET first == CHOOSE x \in set : \A y \in set : SortsBefore(x, y)
       IN  <<first>> \o SortedArray(set \ {first})

\* The Set of String(r[field]) over the rows whose r[field] is truthy.
KeySet(rows, field) ==
  { String(rows[i][field]) : i \in { j \in 1..Len(rows) : Boolean(rows[j][field]) } }

\* The loop `for (const r of rows)` over the first n rows: byLoc after it.
RECURSIVE ByLoc(_, _, _)
ByLoc(rows, n, locationsArr) ==
  IF n = 0 THEN [loc \in { locationsArr[i] : i \in 1..Len(locationsArr) } |-> EmptyMap]
  ELSE LET byLoc == ByLoc(rows, n - 1, locationsArr)
           r == rows[n]
           ts == IF Boolean(r.timestamp) THEN String(r.timestamp) ELSE <<>>
           loc == IF Boolean(r.location_id) THEN String(r.location_id) ELSE <<>>
       IN  IF ts = <<>> \/ loc = <<>> \/ loc \notin DOMAIN byLoc THEN byLoc
           ELSE [byLoc EXCEPT ![loc] =
                   MapSet(byLoc[loc], ts, [y |-> toNumber(r.vehicle_count),
                                           isAnomaly |-> r.is_anomaly])]

\* labelsArr.map((ts) => ...): the points of one location.
ChartPoints(map, labelsArr) ==
  [j \in 1..Len(labelsArr) |->
     LET ts == labelsArr[j]
     IN  IF ts \notin DOMAIN map \/ map[ts].y = Null THEN Null
         ELSE [x |-> ts, y |-> map[ts].y, isAnomaly |-> map[ts].isAnomaly]]

\* The useMemo of { labels, datasets }.
TrafficChart(data) ==
  LET rows == data
      labelsArr == SortedArray(KeySet(rows, "timestamp"))
      locationsArr == SortedArray(KeySet(rows, "location_id"))
      byLoc == ByLoc(rows, Len(rows), locationsArr)
  IN  [ labels |-> labelsArr,
        datasets |-> [i \in 1..Len(locationsArr) |->
                        [label |-> locationsArr[i],
                         data |-> ChartPoints(byLoc[locationsArr[i]], labelsArr)]] ]

-----------------------------------------------------------------------------
\* What App computes from analysisResults = p and hands to TrafficChart and
\* InsightsPanel, the datasets TrafficChart draws and the badges InsightsPanel
\* renders.
RenderedResults(p) ==
  LET data == chartData(processedRecords(p), p.anomalies)
  IN  [ chartData |-> data,
        chart |-> TrafficChart(data),
        badges |-> SeverityBadges(p.anomalies),
        recommendations |-> normalizeRecommendations(p.recommendations) ]

\* The render of the results section for the response body `payload`.
RenderResults ==
  /\ view = NULL
  /\ view' = RenderedResults(payload)
  /\ UNCHANGED <<appVars, localError, fuEffectPending, statusVars, request,
                 offered, settled, hadResults, payload>>

-----------------------------------------------------------------------------
(* The response bodies the render pipeline is checked on                   *)

MaxAnomalies == 2
MaxRecords == 2
MaxItems == 3
MaxTextLen == 4

SeqsUpTo(S, n) == UNION { [1..k -> S] : k \in 0..n }

AnomalyObject(ts, loc, locId, sev) ==
  [timestamp |-> ts, time |-> Undefined, datetime |-> Undefined,
   location |-> loc, location_id |-> locId, locationId |-> Undefined,
   severity |-> sev]

RecordObject(ts, locId, count) ==
  [timestamp |-> ts, time |-> Undefined, datetime |-> Undefined,
   location_id |-> locId, location |-> Undefined, locationId |-> Undefined,
   vehicle_count |-> count, vehicleCount |-> Undefined, count |-> Undefined]

TsA == Str(<<"a">>)
TsAB == Str(<<"a","_","_","b">>)
LocC == Str(<<"c">>)
LocBC == Str(<<"b","_","_","c">>)
SevHigh == Str(<<"h","i","g","h">>)

\* Anomalies that differ in which of timestamp, location, location_id they carry.
KeyedAnomalies ==
  { AnomalyObject(TsA, LocC, Undefined, SevHigh),
    AnomalyObject(TsA, LocBC, Undefined, SevHigh),
    AnomalyObject(TsA, Undefined, LocC, SevHigh),
    AnomalyObject(TsA, LocBC, LocC, SevHigh),
    AnomalyObject(TsA, Undefined, Undefined, SevHigh),
    AnomalyObject(Undefined, LocC, Undefined, SevHigh) }

KeyedRecords ==
  { RecordObject(ts, loc, Num(<<"7">>)) : ts \in {TsA, TsAB}, loc \in {LocC, LocBC} }

\* processed_data as an object with raw_data and records.
ProcessedData(raw_data, records) ==
  [t |-> "object", raw_data |-> raw_data, records |-> records]

\* A response body whose processed_data.raw_data is the array of `records`.
RawData(records) == ProcessedData(Arr(records), Undefined)

\* Records that carry the fields under their other names as well or instead.
AliasedRecords ==
  { RecordObject(TsA, LocC, Num(<<"7">>)),
    [RecordObject(TsA, LocC, Num(<<"7">>)) EXCEPT
       !.time = TsAB, !.location = LocBC, !.count = Num(<<"9">>)],
    [RecordObject(Undefined, Undefined, Undefined) EXCEPT
       !.time = TsAB, !.location = LocBC, !.count = Num(<<"9">>)],
    [RecordObject(Null, LocC, Num(<<"7">>)) EXCEPT !.datetime = TsAB] }

RecordArrays == { Arr(rs) : rs \in SeqsUpTo(AliasedRecords, MaxRecords) }

\* processed_data with raw_data or records missing, null or not an array,
\* processed_data itself an array, and processed_data missing.
ProcessedDataValues ==
  { ProcessedData(raw, recs) :
      raw \in RecordArrays \cup {Undefined, Null, Str(<<"a">>), Obj},
      recs \in RecordArrays \cup {Undefined, Obj} }
    \cup RecordArrays \cup {Undefined, Null, Obj}

CountValues == { Num(<<"7">>), Num(<<"9">>), Str(<<"7">>), Undefined }

\* Records that share or lack timestamp and location_id, with several counts.
PlottedRecords ==
  { RecordObject(ts, loc, count) :
      ts \in {TsA, TsAB, Undefined}, loc \in {LocC, LocBC}, count \in CountValues }

SeverityValues ==
  { Undefined, Num(<<"3">>),
    Str(<<"h","i","g","h">>), Str(<<"H","I","G","H">>), Str(<<"H","i","g","h">>),
    Str(<<"c","r","i","t","i","c","a","l">>), Str(<<"C","r","i","t","i","c","a","l">>),
    Str(<<"m","e","d","i","u","m">>), Str(<<"M","E","D","I","U","M">>),
    Str(<<"m","e","d">>), Str(<<"M","e","d">>),
    Str(<<"l","o","w">>), Str(<<"s","e","v","e","r","e">>), Str(<<>>) }

SeverityAnomalies == { AnomalyObject(TsA, LocC, Undefined, sev) : sev \in SeverityValues }

TextChars == {"a", " ", LF, CR, BULLET} \cup { MOJIBAKE[i] : i \in 1..3 }
ItemValues == { Undefined, Null, Str(<<>>), Str(<<"a">>), Str(<<" ">>), Num(<<"0">>), Num(<<"1">>) }

RecommendationValues ==
  { Str(s) : s \in SeqsUpTo(TextChars, MaxTextLen) }
    \cup { Arr(items) : items \in SeqsUpTo(ItemValues, MaxItems) }
    \cup { Undefined, Null, Num(<<"5">>), Obj }

Payloads ==
  [ anomalies : SeqsUpTo(KeyedAnomalies, MaxAnomalies),
    processed_data : { RawData(rs) : rs \in SeqsUpTo(KeyedRecords, MaxRecords) },
    recommendations : {Undefined} ]
  \cup
  [ anomalies : SeqsUpTo(SeverityAnomalies, MaxAnomalies),
    processed_data : { RawData(<<RecordObject(TsA, LocC, Num(<<"7">>))>>) },
    recommendations : {Undefined} ]
  \cup
  [ anomalies : {<<>>},
    processed_data : { RawData(<<>>) },
    recommendations : RecommendationValues ]
  \cup
  [ anomalies : { <<>>, <<AnomalyObject(TsA, LocC, Undefined, SevHigh)>> },
    processed_data : { RawData(rs) : rs \in SeqsUpTo(PlottedRecords, MaxRecords) },
    recommendations : {Undefined} ]
  \cup
  [ anomalies : { <<>>, <<AnomalyObject(TsAB, LocBC, Undefined, SevHigh)>> },
    processed_data : ProcessedDataValues,
    recommendations : {Undefined} ]

-----------------------------------------------------------------------------
NoPayload == [anomalies |-> <<>>, processed_data |-> Undefined, recommendations |-> Undefined]

InitUI ==
  /\ uploadedFile = NULL
  /\ isAnalyzing = FALSE
  /\ analysisResults = NULL
  /\ error = ""
  /\ phase = "uploading"
  /\ localError = ""
  /\ fuEffectPending = FALSE
  /\ internalPhase = "uploading"
  /\ t1 = FALSE /\ t2 = FALSE
  /\ asEffectPending = FALSE
  /\ request = NULL
  /\ offered = NULL
  /\ settled = NULL
  /\ hadResults = FALSE

Init ==
  /\ InitUI
  /\ payload = NoPayload
  /\ view = NULL

\* The render pipeline alone, on every response body of Payloads.
InitRender ==
  /\ InitUI
  /\ payload \in Payloads
  /\ view = NULL

NextRender == RenderResults

RenderSpec == InitRender /\ [][NextRender]_vars

Next ==
  \/ handleDrop
  \/ handleInputChange
  \/ handleBrowseClick
  \/ FileUploadEffect
  \/ handleAnalyze
  \/ ResolveAnalyze
  \/ RejectAnalyze
  \/ AnalysisStatusEffect
  \/ Timer1
  \/ Timer2

Spec == Init /\ [][Next]_vars

\* axios settles every request: the response arrives, the connection fails, or
\* the 120 s timeout fires, however often the user acts meanwhile (strong
\* fairness: a user event only delays the settlement by the effects it causes).
\* React runs every effect it has scheduled.
LiveSpec ==
  /\ Spec
  /\ SF_vars(ResolveAnalyze \/ RejectAnalyze)
  /\ WF_vars(AnalysisStatusEffect)
  /\ WF_vars(FileUploadEffect)


-----------------------------------------------------------------------------
(* Properties of FileUpload, App.handleAnalyze and AnalysisStatus          *)

\* The name ends in ".csv" whatever the case of its letters, or the MIME type is text/csv.
LooksLikeCsv(file) ==
  \/ /\ Len(file.name) >= 4
     /\ \E ext \in [1..4 -> {".", "c", "s", "v", "C", "S", "V"}] :
          /\ ext = SubSeq(file.name, Len(file.name) - 3, Len(file.name))
          /\ ext[1] = "." /\ ext[2] \in {"c", "C"} /\ ext[3] \in {"s", "S"} /\ ext[4] \in {"v", "V"}
  \/ file.type = "text/csv"

FiveMegabytes == 5242880

Acceptable(file) == LooksLikeCsv(file) /\ file.size <= FiveMegabytes

\* C1: the file selected, and the file handleAnalyze posts to /analyze, is
\* always a CSV (by name, case-insensitively, or by MIME type) of at most
\* 5*1024*1024 bytes; an offered CSV of at most that size (exactly 5 MB
\* included) is the one selected, and a larger one is never selected.
C1_SelectedFileIsCsvWithinLimit ==
  /\ uploadedFile # NULL => Acceptable(uploadedFile)
  /\ request # NULL => Acceptable(request.file)
  /\ (offered # NULL /\ Acceptable(offered)) => uploadedFile = offered
  /\ (offered # NULL /\ ~Acceptable(offered)) => uploadedFile = NULL

\* A file of exactly 5 MB was selected and posted, and a larger CSV offered
\* afterwards was refused.
C1_Witness ==
  /\ request # NULL /\ request.file.size = FiveMegabytes
  /\ offered # NULL /\ LooksLikeCsv(offered) /\ offered.size > FiveMegabytes
  /\ uploadedFile = NULL

\* C2: once a file has been rejected (not a CSV, or too large) and the effects
\* of that render have run, the matching error message is displayed, whatever
\* was selected before.
C2_RejectionErrorStaysDisplayed ==
  (offered # NULL /\ ~Acceptable(offered) /\ EffectsSettled) =>
     localError = IF ~LooksLikeCsv(offered) THEN "Please upload a .csv file."
                  ELSE "File too large (5.00 MB). Max is 5 MB."

\* C3: a run starts on 'uploading' and, while it lasts and when it ends, the
\* phase displayed never moves back to an earlier one.
C3_PhaseStartsAtUploadingAndOnlyAdvances ==
  [][ /\ (~isAnalyzing /\ isAnalyzing') => EffectivePhase' = "uploading"
      /\ (isAnalyzing /\ StatusVisible') =>
            PhaseIndex(EffectivePhase') >= PhaseIndex(EffectivePhase) ]_vars

\* C4: while analyzing, the phase displayed is the phase App reports through
\* the phase prop.
C4_DisplayFollowsPhaseProp ==
  isAnalyzing => EffectivePhase = phase

\* The backend reported a pipeline failure: an HTTP error status with body
\* {success: false, error}, or a 2xx response with success === false.
BackendFailure(r) ==
  \/ r.kind = "http" /\ r.success = "false"
  \/ r.kind = "2xx" /\ r.body /\ r.success = "false"

GenericMessages == {"Analysis failed. Please try again.", "Unexpected error. Please try again."}

\* C7: after a backend failure handleAnalyze ends with error set to the
\* backend's error string (a generic message only when that string is
\* absent), analysisResults null, isAnalyzing false and no results section.
C7_BackendFailureEndsInError ==
  (settled # NULL /\ BackendFailure(settled)) =>
     /\ settled.error \notin {Absent, ""} => error = settled.error
     /\ error # ""
     /\ error \in GenericMessages => settled.error \in {Absent, ""}
     /\ analysisResults = NULL
     /\ ~isAnalyzing
     /\ ~ShowResults

\* A 2xx response with success === false and no error string ended the run.
C7_Witness ==
  /\ settled # NULL /\ settled.kind = "2xx" /\ settled.success = "false"
  /\ settled.error = Absent
  /\ error = "Analysis failed. Please try again."
  /\ uploadedFile # NULL

\* C8: every analysis started eventually ends (isAnalyzing returns to false),
\* and after the request timeout the request is abandoned and an error shown.
C8_AnalysisEventuallyEnds ==
  /\ isAnalyzing ~> ~isAnalyzing
  /\ [](isAnalyzing => request # NULL)
  /\ []((settled # NULL /\ settled.kind = "timeout") =>
          (~isAnalyzing /\ request = NULL /\ error = "timeout of 120000ms exceeded"))

\* The 120 s timeout ended a run.
C8_Witness ==
  /\ settled # NULL /\ settled.kind = "timeout"
  /\ ~isAnalyzing /\ error # ""

\* The last run of handleAnalyze ended without results: the request was
\* rejected, or the response carried success === false.
RunFailed ==
  /\ settled # NULL
  /\ \/ settled \in Rejections
     \/ settled.kind = "2xx" /\ settled.body /\ settled.success = "false"

\* C14: the results section and the error message of App are never rendered
\* together, and analysisResults is null while a request of handleAnalyze is
\* in flight and after a run that failed, so that no results are shown then.
C14_NoResultsWithErrorNorDuringOrAfterFailedRun ==
  /\ ~(ShowResults /\ ShowError)
  /\ (isAnalyzing \/ request # NULL \/ RunFailed) =>
       analysisResults = NULL /\ ~ShowResults

\* A run that followed a successful analysis has failed: its results were set
\* when handleAnalyze was invoked, and are no longer.
C14_Witness ==
  /\ hadResults
  /\ RunFailed
  /\ ~isAnalyzing
  /\ ShowError
  /\ analysisResults = NULL

\* The steps of the card, as positions of PHASES.
Steps == 1..Len(PHASES)

\* C13: whenever the card is shown: while analyzing, exactly one of the four
\* steps is active, the steps before it are done and it and the steps after it
\* are not; when the displayed phase is 'complete', all four steps are done and
\* none is active.
C13_OneActiveStepOrAllDone ==
  StatusVisible =>
    /\ isAnalyzing =>
         \E a \in Steps :
           /\ \A i \in Steps : IsActive(i) <=> i = a
           /\ \A i \in Steps : IsDone(i) <=> i < a
    /\ EffectivePhase = "complete" =>
         \A i \in Steps : IsDone(i) /\ ~IsActive(i)

\* The card during an analysis whose 700 ms timer has fired: the second step
\* is active and the first is done.
C13_Witness ==
  /\ StatusVisible /\ isAnalyzing
  /\ internalPhase = "preprocessing"
  /\ IsActive(2) /\ IsDone(1) /\ ~IsDone(2)

-----------------------------------------------------------------------------
(* Properties of the render pipeline (RenderSpec)                          *)

Present(v) == v.t \notin {"undefined", "null"}

\* Anomaly a names record entry e: it has a timestamp and a location
\* (location, else location_id), and their string forms are e's.
NamesEntry(a, e) ==
  LET loc == IF Present(a.location) THEN a.location ELSE a.location_id
  IN  /\ Present(a.timestamp) /\ Present(loc)
      /\ a.timestamp.s = e.timestamp.s
      /\ loc.s = e.location_id.s

\* C5: a chart entry is flagged exactly when the anomaly list holds an entry
\* with the record's timestamp and location; an entry that is not flagged has
\* anomaly_severity null.
C5_FlaggedIffListedAnomaly ==
  view # NULL =>
    \A i \in 1..Len(view.chartData) :
      LET e == view.chartData[i]
      IN  /\ e.is_anomaly <=>
               \E j \in 1..Len(payload.anomalies) : NamesEntry(payload.anomalies[j], e)
          /\ ~e.is_anomaly => e.anomaly_severity = Null

\* s is word (lower-case letters) up to the case of each letter.
SameUpToCase(s, word) ==
  /\ Len(s) = Len(word)
  /\ \A i \in 1..Len(word) :
       \/ s[i] = word[i]
       \/ \E k \in 1..26 : LowerChars[k] = word[i] /\ UpperChars[k] = s[i]

High == <<"h","i","g","h">>
Medium == <<"m","e","d","i","u","m">>
Low == <<"l","o","w">>

SaysHigh(v) ==
  v.t = "string" /\ (SameUpToCase(v.s, High) \/ SameUpToCase(v.s, <<"c","r","i","t","i","c","a","l">>))
SaysMedium(v) ==
  v.t = "string" /\ (SameUpToCase(v.s, Medium) \/ SameUpToCase(v.s, <<"m","e","d">>))

\* C6: every severity badge is 'high', 'medium' or 'low': 'high' and
\* 'critical' give 'high', 'medium' and 'med' give 'medium', in any letter
\* case, and every other severity value (missing, not a string, any other
\* string) gives 'low'.
C6_BadgeIsHighMediumOrLow ==
  view # NULL =>
    /\ Len(view.badges) = Len(payload.anomalies)
    /\ \A j \in 1..Len(payload.anomalies) :
         LET sev == payload.anomalies[j].severity
             badge == view.badges[j]
         IN  /\ badge \in {High, Medium, Low}
             /\ SaysHigh(sev) => badge = High
             /\ SaysMedium(sev) => badge = Medium
             /\ (~SaysHigh(sev) /\ ~SaysMedium(sev)) => badge = Low

\* Badges were rendered for 'Critical' (high) and for a missing severity (low).
C6_Witness ==
  /\ view # NULL
  /\ \E j \in 1..Len(payload.anomalies) :
       /\ payload.anomalies[j].severity = Str(<<"C","r","i","t","i","c","a","l">>)
       /\ view.badges[j] = High
  /\ \E j \in 1..Len(payload.anomalies) :
       /\ payload.anomalies[j].severity = Undefined
       /\ view.badges[j] = Low

IsWhiteSpace(c) == c = " " \/ c = "\t" \/ c = "\n" \/ c = "\r"

\* s without the line breaks and bullets that separate entries, and without white space.
RECURSIVE Content(_)
Content(s) ==
  IF s = <<>> THEN <<>>
  ELSE IF Len(s) >= 3 /\ s[1] = "U+00E2" /\ s[2] = "U+20AC" /\ s[3] = "U+00A2"
  THEN Content(SubSeq(s, 4, Len(s)))
  ELSE IF s[1] = "U+2022" \/ IsWhiteSpace(s[1]) THEN Content(Tail(s))
  ELSE <<s[1]>> \o Content(Tail(s))

RECURSIVE ContentOfAll(_)
ContentOfAll(entries) ==
  IF entries = <<>> THEN <<>>
  ELSE Content(Head(entries).s) \o ContentOfAll(Tail(entries))

Falsy(v) ==
  \/ v.t \in {"undefined", "null"}
  \/ v.t = "string" /\ Len(v.s) = 0
  \/ v.t = "number" /\ v.s = <<"0">>

\* The entries of items that are not falsy, in order.
RECURSIVE Kept(_)
Kept(items) ==
  IF items = <<>> THEN <<>>
  ELSE (IF Falsy(items[1]) THEN <<>> ELSE <<items[1]>>) \o Kept(Tail(items))

\* C9: normalizeRecommendations returns an array: an array input without its
\* falsy entries, in order; a string input split on line breaks and bullets
\* into trimmed, non-empty entries that keep the text; the empty array for
\* any other input.
C9_RecommendationsNormalized ==
  view # NULL =>
    LET in == payload.recommendations
        out == view.recommendations
    IN  /\ out \in Seq({ out[i] : i \in DOMAIN out })
        /\ in.t = "array" => out = Kept(in.items)
        /\ in.t = "string" =>
             /\ \A i \in 1..Len(out) :
                  /\ out[i].t = "string"
                  /\ out[i].s # <<>>
                  /\ ~IsWhiteSpace(out[i].s[1])
                  /\ ~IsWhiteSpace(out[i].s[Len(out[i].s)])
                  /\ \A k \in 1..Len(out[i].s) : out[i].s[k] \notin {"\n", "U+2022"}
             /\ ContentOfAll(out) = Content(in.s)
             /\ Len(out) <= Cardinality({ k \in 1..Len(in.s) : in.s[k] \in {"\n", "U+2022", "U+00A2"} }) + 1
             /\ \A i \in 1..Len(out) :
                  \E a, b \in 1..Len(in.s) : SubSeq(in.s, a, b) = out[i].s
        /\ in.t \notin {"array", "string"} => out = <<>>

\* A string was split at a bullet into two trimmed entries.
C9_Witness ==
  /\ view # NULL
  /\ payload.recommendations = Str(<<"a", "U+2022", " ", "a">>)
  /\ view.recommendations = <<Str(<<"a">>), Str(<<"a">>)>>

\* C10: the anomaly_severity of a flagged chart entry is 'high', 'medium' or
\* 'low', and it is the severity InsightsPanel shows for an anomaly with the
\* entry's timestamp and location.
C10_ChartSeverityIsTheBadge ==
  view # NULL =>
    \A i \in 1..Len(view.chartData) :
      LET e == view.chartData[i]
      IN  (e.is_anomaly /\ \E j \in 1..Len(payload.anomalies) :
                                NamesEntry(payload.anomalies[j], e)) =>
            /\ e.anomaly_severity \in {Str(High), Str(Medium), Str(Low)}
            /\ \E j \in 1..Len(payload.anomalies) :
                 /\ NamesEntry(payload.anomalies[j], e)
                 /\ view.badges[j] = e.anomaly_severity.s

-----------------------------------------------------------------------------
(* Properties of TrafficChart and of App.chartData                         *)

\* A record with a timestamp, a location_id and a numeric vehicle_count.
Plottable(e) ==
  /\ Boolean(e.timestamp)
  /\ Boolean(e.location_id)
  /\ e.vehicle_count.t = "number"

\* The non-null points of the datasets, as <<dataset, position>>.
PointsOf(chart) ==
  { ij \in UNION { { <<i, j>> : j \in DOMAIN chart.datasets[i].data } :
                     i \in DOMAIN chart.datasets } :
      chart.datasets[ij[1]].data[ij[2]] # Null }

\* The point ij shows the record e.
Shows(chart, ij, e) ==
  /\ chart.datasets[ij[1]].label = String(e.location_id)
  /\ chart.datasets[ij[1]].data[ij[2]].x = String(e.timestamp)
  /\ chart.datasets[ij[1]].data[ij[2]].y = e.vehicle_count

\* C11: every record with a timestamp, a location_id and a numeric
\* vehicle_count has its own point in the datasets of TrafficChart: a point of
\* its location's dataset at its timestamp with its vehicle_count, different
\* records having different points, so that records sharing the pair
\* (timestamp, location_id) are all plotted.
C11_EveryRecordHasItsOwnPoint ==
  view # NULL =>
    LET plottable == { i \in DOMAIN view.chartData : Plottable(view.chartData[i]) }
    IN  \E own \in [plottable -> PointsOf(view.chart)] :
          /\ \A i \in plottable : Shows(view.chart, own[i], view.chartData[i])
          /\ \A i, k \in plottable : i # k => own[i] # own[k]

RecordFields ==
  {"timestamp", "time", "datetime", "location_id", "location", "locationId",
   "vehicle_count", "vehicleCount", "count"}

IsArray(v) == v.t = "array"
Nullish(v) == v = Undefined \/ v = Null

\* The processed record array as the claim reads it: raw_data, else records,
\* else processed_data, whichever is the first that is an array.
FirstArray(p) ==
  LET raw == Member(p.processed_data, "raw_data")
      recs == Member(p.processed_data, "records")
  IN  IF IsArray(raw) THEN raw.items
      ELSE IF IsArray(recs) THEN recs.items
      ELSE IF IsArray(p.processed_data) THEN p.processed_data.items
      ELSE <<>>

\* C12: chartData has one entry per element of the processed record array
\* (raw_data, else records, else processed_data when that is an array), in the
\* same order, and each entry has every field of its source record unchanged,
\* with only is_anomaly and anomaly_severity added.
C12_ChartDataIsVerbatim ==
  view # NULL =>
    LET src == FirstArray(payload)
    IN  /\ Len(view.chartData) = Len(src)
        /\ \A i \in 1..Len(src) :
             /\ DOMAIN view.chartData[i] = RecordFields \cup {"is_anomaly", "anomaly_severity"}
             /\ \A f \in RecordFields : view.chartData[i][f] = src[i][f]

\* The first of the values that is neither null nor undefined, else the last.
FirstPresent(values) ==
  IF \A i \in 1..Len(values) : Nullish(values[i]) THEN values[Len(values)]
  ELSE values[CHOOSE i \in 1..Len(values) :
                /\ ~Nullish(values[i])
                /\ \A j \in 1..(i - 1) : Nullish(values[j])]

\* The first of raw_data, records and processed_data that is neither null nor
\* undefined, when it is an array.
FirstPresentArray(p) ==
  LET chosen == FirstPresent(<<Member(p.processed_data, "raw_data"),
                               Member(p.processed_data, "records"),
                               p.processed_data>>)
  IN  IF IsArray(chosen) THEN chosen.items ELSE <<>>

\* C12 (amended): chartData has one entry per element, in the same order, of
\* the first of raw_data, records and processed_data that is neither null nor
\* undefined, and is empty when that value is not an array.  Each entry has
\* the fields of its source record, with timestamp, location_id and
\* vehicle_count set to the first present of timestamp/time/datetime, of
\* location_id/location/locationId and of vehicle_count/vehicleCount/count,
\* every other field unchanged, and is_anomaly and anomaly_severity added; a
\* record that has timestamp, location_id and vehicle_count is kept unchanged.
C12_ChartDataKeepsRecordsUpToAliases ==
  view # NULL =>
    LET src == FirstPresentArray(payload)
    IN  /\ Len(view.chartData) = Len(src)
        /\ \A i \in 1..Len(src) :
             LET e == view.chartData[i]
                 r == src[i]
             IN  /\ DOMAIN e = RecordFields \cup {"is_anomaly", "anomaly_severity"}
                 /\ e.timestamp = FirstPresent(<<r.timestamp, r.time, r.datetime>>)
                 /\ e.location_id = FirstPresent(<<r.location_id, r.location, r.locationId>>)
                 /\ e.vehicle_count = FirstPresent(<<r.vehicle_count, r.vehicleCount, r.count>>)
                 /\ \A f \in RecordFields \ {"timestamp", "location_id", "vehicle_count"} :
                      e[f] = r[f]
                 /\ (~Nullish(r.timestamp) /\ ~Nullish(r.location_id) /\ ~Nullish(r.vehicle_count))
                      => \A f \in RecordFields : e[f] = r[f]

\* A record without timestamp, location_id and vehicle_count but with time,
\* location and count has been rendered, after a record that has them all.
C12_Witness ==
  /\ view # NULL
  /\ Len(view.chartData) = 2
  /\ LET src == FirstPresentArray(payload)
     IN  /\ ~Nullish(src[1].timestamp) /\ ~Nullish(src[1].time)
         /\ Nullish(src[2].timestamp) /\ Nullish(src[2].location_id)
         /\ Nullish(src[2].vehicle_count)
         /\ view.chartData[2].timestamp = src[2].time
         /\ view.chartData[2].count = src[2].count

=============================================================================
